---- MODULE Spec2Model ----
(***************************************************************************)
(* The DDSketch reference generator                                        *)
(* (tooling/ddsketch-reference-generator/main.py) as a state machine.      *)
(*                                                                         *)
(* One run of main(): the input text is read and parsed line by line, a    *)
(* sketch is constructed and populated, the quantile function is sampled   *)
(* on the grid linspace(0, 1, 1000), the pairs are written, and the        *)
(* output is flushed and synced.  An exception raised by any statement     *)
(* propagates out of main() and ends the process with a non-zero status.   *)
(*                                                                         *)
(* The input text is a sequence of lexemes: one-character strings, and     *)
(* "inf", which stands for the three characters of Python's literal for    *)
(* infinity.  A float is coded as an integer: a finite value by itself     *)
(* (the alphabet has no sign, so it is not negative), infinity and None    *)
(* (what the sketch answers when it holds no sample) by negative codes.    *)
(* A rank of the grid is the numerator i of i / (GridSize - 1).            *)
(*                                                                         *)
(* The imported sketch keeps its samples; its quantile estimate is         *)
(* modelled by the sample of the queried rank (its relative error is not   *)
(* part of this program).  The storage is assumed to accept every write.   *)
(***************************************************************************)
EXTENDS Integers, Sequences, FiniteSets, TLC

\* ------------------------------------------------------------------ bounds

\* The longest input text, in lexemes.
MaxInputLen == 3

\* ------------------------------------------------------- program constants

\* np.linspace(0, 1, 1000): the number of grid points.
GridSize == 1000

\* default=0.0001, in units of 1/10000.
DefaultAlpha == 1

\* default=32768.
DefaultMaxBins == 32768

\* f"{quantile:.3}": the precision of the rank field.
RankPrecision == 3

\* ------------------------------------------------------------------- text

Whitespace == {" ", "\n"}
DigitLexemes == {"1", "2"}
Alphabet == {",", " ", "\n", "1", "2", "x", "inf"}

\* The alpha arguments tried: 0.0 (rejected by the sketch) and the default.
AlphaChoices == {0, DefaultAlpha}
MaxBinsChoices == {DefaultMaxBins}

RECURSIVE TextsOfLen(_)
TextsOfLen(n) ==
    IF n = 0 THEN {<<>>}
    ELSE {Append(t, c) : t \in TextsOfLen(n - 1), c \in Alphabet}

Texts == UNION {TextsOfLen(n) : n \in 0..MaxInputLen}

\* ----------------------------------------------------------------- floats

Inf == -1
None == -2
IsFinite(v) == v >= 0

RECURSIVE Pow10(_)
Pow10(n) == IF n = 0 THEN 1 ELSE 10 * Pow10(n - 1)

\* file.readlines(): the text cut after every "\n"; a last line without
\* "\n" is kept, an empty text has no line.
RECURSIVE readlines(_, _)
readlines(text, cur) ==
    IF text = <<>> THEN (IF cur = <<>> THEN <<>> ELSE <<cur>>)
    ELSE IF Head(text) = "\n"
         THEN <<Append(cur, "\n")>> \o readlines(Tail(text), <<>>)
         ELSE readlines(Tail(text), Append(cur, Head(text)))

\* line.split(","): one more piece than there are commas.
RECURSIVE split(_, _)
split(line, cur) ==
    IF line = <<>> THEN <<cur>>
    ELSE IF Head(line) = ","
         THEN <<cur>> \o split(Tail(line), <<>>)
         ELSE split(Tail(line), Append(cur, Head(line)))

RECURSIVE lstrip(_)
lstrip(t) ==
    IF t # <<>> /\ Head(t) \in Whitespace THEN lstrip(Tail(t)) ELSE t

RECURSIVE rstrip(_)
rstrip(t) ==
    IF t # <<>> /\ t[Len(t)] \in Whitespace
    THEN rstrip(SubSeq(t, 1, Len(t) - 1))
    ELSE t

\* str.strip()
strip(t) == rstrip(lstrip(t))

DigitValue(c) == IF c = "1" THEN 1 ELSE 2

RECURSIVE DecimalValue(_)
DecimalValue(t) ==
    IF t = <<>> THEN 0
    ELSE 10 * DecimalValue(SubSeq(t, 1, Len(t) - 1)) + DigitValue(t[Len(t)])

\* float(i) raises ValueError unless i, stripped, is a literal.
IsFloatLiteral(t) ==
    LET s == strip(t)
    IN  \/ s = <<"inf">>
        \/ s # <<>> /\ \A j \in 1..Len(s) : s[j] \in DigitLexemes

\* float(i)
float(t) ==
    LET s == strip(t)
    IN  IF s = <<"inf">> THEN Inf ELSE DecimalValue(s)

\* The tokens of a line that pass "if i.strip()".
KeptTokens(line) ==
    SelectSeq(split(line, <<>>), LAMBDA t : strip(t) # <<>>)

\* The list of a line built back to front.
LineFloatsReversed(line) ==
    LET kept == KeptTokens(line)
    IN  [j \in 1..Len(kept) |-> float(kept[Len(kept) + 1 - j])]

\* [float(i) for i in line.split(",") if i.strip()], when no float() raises.
LineFloats(line) ==
    LET kept == KeptTokens(line)
    IN  [j \in 1..Len(kept) |-> float(kept[j])]

\* Only the first token of a line is validated.
LineRaisesFirstOnly(line) ==
    LET kept == KeptTokens(line)
    IN  kept # <<>> /\ ~IsFloatLiteral(kept[1])

\* Some float(i) of the comprehension raises ValueError.
LineRaises(line) ==
    LET kept == KeptTokens(line)
    IN  \E j \in 1..Len(kept) : ~IsFloatLiteral(kept[j])

\* ----------------------------------------------------------------- sketch

EmptySketch == [built |-> TRUE, store |-> <<>>]
NoSketch == [built |-> FALSE, store |-> <<>>]

\* The constructor rejects a relative accuracy outside (0, 1).
ConstructorRaises(a) == a <= 0 \/ a >= 10000

\* sketch.add(v) raises on an infinite value (its bin key is no integer).
AddRaises(v) == ~IsFinite(v)

RECURSIVE InsertSorted(_, _)
InsertSorted(s, n) ==
    IF s = <<>> THEN <<n>>
    ELSE IF n <= Head(s) THEN <<n>> \o s
         ELSE <<Head(s)>> \o InsertSorted(Tail(s), n)

\* sketch.add(v), v finite.
SketchAdd(sk, v) == [sk EXCEPT !.store = InsertSorted(sk.store, v)]

\* sketch.get_quantile_value(i / (GridSize - 1)): None without samples,
\* else the sample of rank q * (count - 1).
get_quantile_value(sk, i) ==
    IF sk.store = <<>> THEN None
    ELSE sk.store[((i * (Len(sk.store) - 1)) \div (GridSize - 1)) + 1]

\* ------------------------------------------------------------- formatting

DigitChar(d) == <<"0", "1", "2", "3", "4", "5", "6", "7", "8", "9">>[d + 1]

RECURSIVE Digits(_)
Digits(n) ==
    IF n < 10 THEN <<DigitChar(n)>>
    ELSE Append(Digits(n \div 10), DigitChar(n % 10))

\* n in exactly w digits, zero-padded on the left.
RECURSIVE PaddedDigits(_, _)
PaddedDigits(n, w) ==
    IF w = 0 THEN <<>>
    ELSE Append(PaddedDigits(n \div 10, w - 1), DigitChar(n % 10))

RECURSIVE StripTrailingZeros(_)
StripTrailingZeros(t) ==
    IF t # <<>> /\ t[Len(t)] = "0"
    THEN StripTrailingZeros(SubSeq(t, 1, Len(t) - 1))
    ELSE t

\* The fraction digits of the fixed format 'f': every digit is kept.
FractionTextFixed(t) == t

\* The fraction digits of the general format without a type code: trailing
\* zeros are removed, but one digit after the point is kept.
FractionText(t) ==
    LET s == StripTrailingZeros(t)
    IN  IF s = <<>> THEN <<"0">> ELSE s

\* The number of decimals that leave p significant digits of
\* i / (GridSize - 1), i > 0.
RECURSIVE Decimals(_, _, _)
Decimals(i, p, d) ==
    IF i * Pow10(d) >= Pow10(p - 1) * (GridSize - 1) THEN d
    ELSE Decimals(i, p, d + 1)

\* i * 10^d / (GridSize - 1), rounded to the nearest integer (no rank of
\* the grid lies halfway between two of them).
Rounded(i, d) ==
    (2 * i * Pow10(d) + (GridSize - 1)) \div (2 * (GridSize - 1))

\* format(i / (GridSize - 1), ".p"): p significant digits in fixed
\* notation (every rank but 0 is at least 0.001, above the 1e-4 at which
\* the exponent notation starts).
FormatGeneral(i, p) ==
    LET d0 == IF i = 0 THEN p - 1 ELSE Decimals(i, p, 0)
        m0 == Rounded(i, d0)
        carry == m0 >= Pow10(p)
        d == IF carry THEN d0 - 1 ELSE d0
        m == IF carry THEN m0 \div 10 ELSE m0
    IN  Digits(m \div Pow10(d)) \o <<".">>
            \o FractionText(PaddedDigits(m % Pow10(d), d))

\* The lexemes of a text as one string.
RECURSIVE Join(_)
Join(t) == IF t = <<>> THEN "" ELSE Head(t) \o Join(Tail(t))

\* A rank formatted with one significant digit too few.
FormatRankTextShort(i) == FormatGeneral(i, RankPrecision - 1)

\* The lexemes of f"{quantile:.3}" for quantile = i / (GridSize - 1).
FormatRankText(i) == FormatGeneral(i, RankPrecision)

FormatRank(i) == Join(FormatRankText(i))

\* f"{value:.9}" for an integral value below 10^9.
FormatValue(v) == Join(Digits(v)) \o ".0"

\* f"{value:.9}" raises TypeError on None.
FormatRaises(v) == v = None

\* f"{quantile:.3},{value:.9}\n"
FormatLine(i, v) == FormatRank(i) \o "," \o FormatValue(v) \o "\n"

\* ------------------------------------------------------------------ state

VARIABLES
    input,             \* the text of args.input
    alpha,             \* args.alpha, in units of 1/10000
    max_bins,          \* args.max_bins
    pc,                \* the statement main() is at
    lines,             \* the lines of args.input.readlines() not yet parsed
    input_floats,      \* the sample sequence
    sketch,            \* the sketch, NoSketch before its construction
    constructions,     \* how many times the constructor has been called
    added,             \* the values passed to sketch.add, in call order
    queries,           \* how many times get_quantile_value has been called
    output_quantiles,  \* the (rank, value) pairs of the grid
    output,            \* the lines written to args.output, in order
    output_open,       \* args.output is an open handle
    flushed,           \* args.output.flush() has returned
    synced,            \* os.fsync(args.output) has returned
    exit_code          \* the exit status of the process, -1 while it runs

vars ==
    <<input, alpha, max_bins, pc, lines, input_floats, sketch, constructions,
      added, queries, output_quantiles, output, output_open, flushed, synced,
      exit_code>>

args == <<input, alpha, max_bins>>

\* The state after parser.parse_args(): both files are open, the output
\* is truncated by mode 'w'.
Init ==
    /\ input \in Texts
    /\ alpha \in AlphaChoices
    /\ max_bins \in MaxBinsChoices
    /\ pc = "readlines"
    /\ lines = <<>>
    /\ input_floats = <<>>
    /\ sketch = NoSketch
    /\ constructions = 0
    /\ added = <<>>
    /\ queries = 0
    /\ output_quantiles = <<>>
    /\ output = <<>>
    /\ output_open = TRUE
    /\ flushed = FALSE
    /\ synced = FALSE
    /\ exit_code = -1

\* input_floats = []; args.input.readlines()
ReadLines ==
    /\ pc = "readlines"
    /\ lines' = readlines(input, <<>>)
    /\ pc' = IF lines' = <<>> THEN "construct" ELSE "parse"
    /\ UNCHANGED <<args, input_floats, sketch, constructions, added,
                   queries, output_quantiles, output, output_open, flushed,
                   synced, exit_code>>

\* One iteration of the loop over the lines: the comprehension is evaluated
\* whole, and only then is its list appended to input_floats.
ParseLine ==
    /\ pc = "parse"
    /\ IF LineRaises(Head(lines))
       THEN /\ pc' = "raised"
            /\ UNCHANGED <<lines, input_floats>>
       ELSE /\ input_floats' = input_floats \o LineFloats(Head(lines))
            /\ lines' = Tail(lines)
            /\ pc' = IF lines' = <<>> THEN "construct" ELSE "parse"
    /\ UNCHANGED <<args, sketch, constructions, added, queries,
                   output_quantiles,
                   output, output_open, flushed, synced, exit_code>>

\* sketch = LogCollapsingLowestDenseDDSketch(relative_accuracy=args.alpha,
\*                                           bin_limit=args.max_bins)
Construct ==
    /\ pc = "construct"
    /\ constructions' = constructions + 1
    /\ IF ConstructorRaises(alpha)
       THEN /\ pc' = "raised"
            /\ UNCHANGED sketch
       ELSE /\ sketch' = EmptySketch
            /\ pc' = IF input_floats = <<>> THEN "query" ELSE "add"
    /\ UNCHANGED <<args, lines, input_floats, added, queries,
                   output_quantiles,
                   output, output_open, flushed, synced, exit_code>>

\* A population loop that stops one sample early.
AddAllButLast ==
    /\ pc = "add"
    /\ LET v == input_floats[Len(added) + 1]
       IN  /\ added' = Append(added, v)
           /\ IF AddRaises(v)
              THEN /\ pc' = "raised"
                   /\ UNCHANGED sketch
              ELSE /\ sketch' = SketchAdd(sketch, v)
                   /\ pc' = IF Len(added') >= Len(input_floats) - 1
                            THEN "query" ELSE "add"
    /\ UNCHANGED <<args, lines, input_floats, constructions,
                   queries, output_quantiles, output, output_open, flushed,
                   synced, exit_code>>

\* One iteration of: for v in input_floats: sketch.add(v)
Add ==
    /\ pc = "add"
    /\ LET v == input_floats[Len(added) + 1]
       IN  /\ added' = Append(added, v)
           /\ IF AddRaises(v)
              THEN /\ pc' = "raised"
                   /\ UNCHANGED sketch
              ELSE /\ sketch' = SketchAdd(sketch, v)
                   /\ pc' = IF Len(added') = Len(input_floats)
                            THEN "query" ELSE "add"
    /\ UNCHANGED <<args, lines, input_floats, constructions,
                   queries, output_quantiles, output, output_open, flushed,
                   synced, exit_code>>

\* A grid one point short.
QueryOneShort ==
    /\ pc = "query"
    /\ output_quantiles' =
           [n \in 1..(GridSize - 1) |->
               <<n - 1, get_quantile_value(sketch, n - 1)>>]
    /\ queries' = queries + GridSize - 1
    /\ pc' = "write"
    /\ UNCHANGED <<args, lines, input_floats, sketch, constructions, added,
                   output, output_open, flushed, synced, exit_code>>

\* output_quantiles = [(x, sketch.get_quantile_value(x))
\*                     for x in np.linspace(0, 1, 1000)]
\* The list is bound only when the whole comprehension has been evaluated.
Query ==
    /\ pc = "query"
    /\ output_quantiles' =
           [n \in 1..GridSize |-> <<n - 1, get_quantile_value(sketch, n - 1)>>]
    /\ queries' = queries + GridSize
    /\ pc' = "write"
    /\ UNCHANGED <<args, lines, input_floats, sketch, constructions, added,
                   output, output_open, flushed, synced, exit_code>>

\* A writer that emits the rank field before it formats the value.
WriteFieldByField ==
    /\ pc = "write"
    /\ LET pair == output_quantiles[Len(output) + 1]
       IN  IF FormatRaises(pair[2])
           THEN /\ pc' = "raised"
                /\ output' = Append(output, FormatRank(pair[1]) \o ",")
           ELSE /\ output' = Append(output, FormatLine(pair[1], pair[2]))
                /\ pc' = IF Len(output') = Len(output_quantiles)
                         THEN "flush" ELSE "write"
    /\ UNCHANGED <<args, lines, input_floats, sketch, constructions, added,
                   queries, output_quantiles, output_open, flushed, synced,
                   exit_code>>

\* One iteration of the loop over output_quantiles:
\* args.output.write(f"{quantile:.3},{value:.9}\n")
Write ==
    /\ pc = "write"
    /\ LET pair == output_quantiles[Len(output) + 1]
       IN  IF FormatRaises(pair[2])
           THEN /\ pc' = "raised"
                /\ UNCHANGED output
           ELSE /\ output' = Append(output, FormatLine(pair[1], pair[2]))
                /\ pc' = IF Len(output') = Len(output_quantiles)
                         THEN "flush" ELSE "write"
    /\ UNCHANGED <<args, lines, input_floats, sketch, constructions, added,
                   queries, output_quantiles, output_open, flushed, synced,
                   exit_code>>

\* The flush left out.
FlushOmitted ==
    /\ pc = "flush"
    /\ pc' = "fsync"
    /\ UNCHANGED <<args, lines, input_floats, sketch, constructions, added,
                   queries, output_quantiles, output, output_open, flushed,
                   synced, exit_code>>

\* args.output.flush()
Flush ==
    /\ pc = "flush"
    /\ flushed' = TRUE
    /\ pc' = "fsync"
    /\ UNCHANGED <<args, lines, input_floats, sketch, constructions, added,
                   queries, output_quantiles, output, output_open, synced,
                   exit_code>>

\* os.fsync(args.output)
Fsync ==
    /\ pc = "fsync"
    /\ synced' = TRUE
    /\ pc' = "returned"
    /\ UNCHANGED <<args, lines, input_floats, sketch, constructions, added,
                   queries, output_quantiles, output, output_open, flushed,
                   exit_code>>

\* An exit that leaves the output handle open.
ExitWithoutClosing ==
    /\ pc \in {"returned", "raised"}
    /\ exit_code' = IF pc = "returned" THEN 0 ELSE 1
    /\ pc' = IF pc = "returned" THEN "DONE" ELSE "FAILED"
    /\ UNCHANGED <<args, lines, input_floats, sketch, constructions, added,
                   queries, output_quantiles, output, output_open, flushed,
                   synced>>

\* main() has returned or raised: the interpreter exits and closes the
\* files it still holds.
Exit ==
    /\ pc \in {"returned", "raised"}
    /\ exit_code' = IF pc = "returned" THEN 0 ELSE 1
    /\ pc' = IF pc = "returned" THEN "DONE" ELSE "FAILED"
    /\ output_open' = FALSE
    /\ UNCHANGED <<args, lines, input_floats, sketch, constructions, added,
                   queries, output_quantiles, output, flushed, synced>>

Next ==
    \/ ReadLines
    \/ ParseLine
    \/ Construct
    \/ Add
    \/ Query
    \/ Write
    \/ Flush
    \/ Fsync
    \/ Exit

Spec == Init /\ [][Next]_vars

\* ----------------------------------------------------------- properties

Terminal == pc \in {"DONE", "FAILED"}

DefaultParameters == alpha = DefaultAlpha /\ max_bins = DefaultMaxBins

RECURSIVE Flatten(_)
Flatten(ss) == IF ss = <<>> THEN <<>> ELSE Head(ss) \o Flatten(Tail(ss))

\* Every token of a text: the lines in order, the tokens of a line left to
\* right.
FileTokens(text) ==
    LET ls == readlines(text, <<>>)
    IN  Flatten([j \in 1..Len(ls) |-> split(ls[j], <<>>)])

\* A token that is empty or holds whitespace only.
IsBlank(t) == \A j \in 1..Len(t) : t[j] \in Whitespace

NonBlankTokens(text) == SelectSeq(FileTokens(text), LAMBDA t : ~IsBlank(t))

\* The parsed values of the non-blank tokens of a text, in file order.
ExpectedFloats(text) ==
    LET toks == NonBlankTokens(text)
    IN  [j \in 1..Len(toks) |-> float(toks[j])]

\* A decimal literal: digits, possibly surrounded by whitespace.
IsDecimalLiteral(t) ==
    LET inner == SelectSeq(t, LAMBDA c : c \notin Whitespace)
    IN  /\ IsFloatLiteral(t)
        /\ inner # <<>>
        /\ \A j \in 1..Len(inner) : inner[j] \in DigitLexemes

\* The input format: one or more lines of comma-separated decimal
\* literals, blank tokens allowed.
InputInFormat ==
    /\ readlines(input, <<>>) # <<>>
    /\ LET toks == NonBlankTokens(input)
       IN  \A j \in 1..Len(toks) : IsDecimalLiteral(toks[j])

HasMalformedToken ==
    LET toks == NonBlankTokens(input)
    IN  \E j \in 1..Len(toks) : ~IsFloatLiteral(toks[j])

\* The line whose rank field is the text r and whose value is v.
LineOf(r, v) == r \o "," \o FormatValue(v) \o "\n"

\* The number a decimal text denotes, times 10^6.
TextValue(t) ==
    LET point == CHOOSE j \in 1..Len(t) : t[j] = "."
        digit(c) == CHOOSE d \in 0..9 : DigitChar(d) = c
        whole == [j \in 1..(point - 1) |-> digit(t[j])]
        frac == [j \in 1..(Len(t) - point) |-> digit(t[point + j])]
        RECURSIVE Number(_)
        Number(ds) ==
            IF ds = <<>> THEN 0
            ELSE 10 * Number(SubSeq(ds, 1, Len(ds) - 1)) + ds[Len(ds)]
    IN  Number(whole) * Pow10(6) + Number(frac) * Pow10(6 - Len(frac))

Abs(n) == IF n < 0 THEN -n ELSE n

C2_DoneAfterWriteFlushSync ==
    /\ flushed => Len(output) = GridSize
    /\ synced => flushed
    /\ pc \in {"returned", "DONE"} => synced
    /\ exit_code = 0 <=> pc = "DONE"

C2_Witness == pc = "DONE" /\ exit_code = 0 /\ synced

\* C3: an input with a token that is not blank and not a float literal
\* never gets past parsing: the run cannot succeed, no sketch is
\* constructed, no sample is added, no query is made, no line is written.
C3_MalformedTokenAbortsBeforeSketch ==
    HasMalformedToken =>
        /\ pc \in {"readlines", "parse", "raised", "FAILED"}
        /\ exit_code # 0
        /\ ~sketch.built
        /\ constructions = 0
        /\ added = <<>>
        /\ queries = 0
        /\ output = <<>>

\* The malformed token is met after a line has been parsed.
C3_Witness ==
    /\ HasMalformedToken
    /\ pc = "FAILED"
    /\ input_floats # <<>>

C5_SamplesAreNonBlankTokensInOrder ==
    pc = "construct" => input_floats = ExpectedFloats(input)

\* A parsed input with a whitespace-only token and a sample.
C5_Witness ==
    /\ pc = "construct"
    /\ input_floats # <<>>
    /\ LET toks == FileTokens(input)
       IN  \E j \in 1..Len(toks) : toks[j] # <<>> /\ IsBlank(toks[j])

\* C6 as stated: in a successful run the first rank field is "0.00" and
\* the last is "1.00".
C6_RankFieldsPadded ==
    pc = "DONE" =>
        /\ output[1] = LineOf("0.00", output_quantiles[1][2])
        /\ output[GridSize] = LineOf("1.00", output_quantiles[GridSize][2])

\* C6, amended: in a successful run the first rank field is "0.0" and the
\* last is "1.0".
C6_RankFieldsShortest ==
    pc = "DONE" =>
        /\ output[1] = LineOf("0.0", output_quantiles[1][2])
        /\ output[GridSize] = LineOf("1.0", output_quantiles[GridSize][2])

C6_Witness ==
    pc = "DONE" /\ Len(output) = GridSize /\ output[1] # output[GridSize]

\* C7: the ranks queried are i/999 for i = 0..999 in ascending order, each
\* once; line n carries rank (n-1)/999 rounded to 3 significant digits, and
\* the rank texts of consecutive lines are strictly increasing.  Each line
\* is examined in the state that follows its write.
C7_RanksAscendAfterRounding ==
    /\ (pc = "write" /\ output = <<>>) =>
           /\ queries = GridSize
           /\ Len(output_quantiles) = GridSize
           /\ \A n \in 1..GridSize : output_quantiles[n][1] = n - 1
    /\ LET n == Len(output)
           text == FormatRankText(n - 1)
           value == TextValue(text)
       IN  (pc \in {"write", "flush"} /\ n >= 1) =>
               /\ output[n] = LineOf(Join(text), output_quantiles[n][2])
               /\ 2 * Abs((GridSize - 1) * value - Pow10(6) * (n - 1))
                      <= (GridSize - 1) * Pow10(3)
               /\ n >= 2 => TextValue(FormatRankText(n - 2)) < value

C7_Witness == pc = "flush" /\ Len(output) = GridSize /\ queries = GridSize

\* C9: the sketch is constructed at most once and only after the input is
\* parsed; the samples are added once each in file order; every add
\* precedes the queries.
C9_ConstructPopulateQuery ==
    /\ constructions <= 1
    /\ constructions = 0 => ~sketch.built /\ added = <<>> /\ queries = 0
    /\ constructions > 0 =>
           /\ lines = <<>>
           /\ pc \notin {"readlines", "parse"}
    /\ Len(added) <= Len(input_floats)
    /\ added = SubSeq(input_floats, 1, Len(added))
    /\ queries > 0 =>
           /\ queries = GridSize
           /\ added = input_floats
           /\ Len(sketch.store) = Len(added)

C9_Witness == pc = "DONE" /\ Len(added) = 2 /\ added[1] # added[2]

====
